---- MODULE Spec2Model ----
(***************************************************************************)
(* Verification model of edward2: the MADE degree/mask generator and       *)
(* masked layer (tensorflow/layers/made.py) and the tracer stack exercised *)
(* by trace_test.py.                                                       *)
(***************************************************************************)
EXTENDS Integers, Sequences, FiniteSets, TLC

\* ---- bounds of the exploration ----
MaxDim == 3
MaxLayers == 2
MaxHidden == 3
MaxChannels == 2
MaxUnits == 2
MaxUpdates == 2
MaxDepth == 3
\* most hidden units in all layers together when degrees are drawn at random
MaxRandomUnits == 3

VARIABLES
  input_dim,     \* create_masks / create_degrees argument
  hidden_dims,   \* list of hidden layer sizes
  input_order,   \* [kind |-> string or "array", arr |-> explicit order]
  hidden_order,  \* "left-to-right" or "random"
  status,        \* "init", "done" (create_masks returned), "built", "raised" (ValueError)
  degrees,       \* list of degree vectors returned by create_degrees
  masks,         \* list of masks returned by create_masks
  channels,      \* MADE.build: input_shape[-1]
  units,         \* MADE.units
  layer_masks,   \* the mask captured by each Dense layer's initializer/constraint
  unconstrained, \* each kernel as produced by the initializer / the update step
  kernels,       \* each kernel after the masked initializer / masked constraint
  nupdates,      \* number of update steps taken
  tstack,        \* the tracer stack, innermost handler last
  frames,        \* active trace scopes and handler invocations, innermost last
  exc,           \* the exception propagating, or "none"
  raised,        \* the exception as it was raised
  caught,        \* the exception as the caller received it
  results,       \* per factory name: value returned to the model, handlers invoked
  trail          \* handlers invoked so far by the current traceable call

maskVars == <<input_dim, hidden_dims, input_order, hidden_order, status, degrees, masks>>
layerVars == <<channels, units, layer_masks, unconstrained, kernels, nupdates>>
traceVars == <<tstack, frames, exc, raised, caught, results, trail>>
vars == <<maskVars, layerVars, traceVars>>

\* ---- numpy helpers used by create_degrees ----
Max2(a, b) == IF a >= b THEN a ELSE b
Min2(a, b) == IF a <= b THEN a ELSE b

\* np.arange(1, n + 1)
Arange1(n) == [k \in 1..n |-> k]

\* np.flip(v, 0)
Flip(v) == [k \in 1..Len(v) |-> v[Len(v) + 1 - k]]

\* np.min(v)
NpMin(v) == CHOOSE m \in {v[k] : k \in 1..Len(v)} : \A k \in 1..Len(v) : m <= v[k]

RECURSIVE InsertSorted(_, _)
InsertSorted(x, s) ==
  IF s = <<>> THEN <<x>>
  ELSE IF x <= Head(s) THEN <<x>> \o s
  ELSE <<Head(s)>> \o InsertSorted(x, Tail(s))

RECURSIVE NpSort(_)
\* np.sort(v): ascending
NpSort(v) == IF v = <<>> THEN <<>> ELSE InsertSorted(Head(v), NpSort(Tail(v)))

\* np.random.shuffle(np.arange(1, n + 1)): any permutation can come out
Shuffles(n) == {p \in [1..n -> 1..n] : \A a, b \in 1..n : p[a] = p[b] => a = b}

IsStr(order) == order.kind # "array"

\* made.py 163-167 and 178-179: the conditions under which ValueError is raised
create_degrees_raises(dim, order, horder) ==
  \/ IsStr(order) /\ order.kind \notin {"random", "left-to-right", "right-to-left"}
  \/ horder \notin {"random", "left-to-right"}
  \/ /\ ~IsStr(order)
     /\ \A k \in 1..dim : NpSort(order.arr)[k] # Arange1(dim)[k]

\* made.py 170-180: the possible input degree vectors
input_degrees_of(dim, order) ==
  IF IsStr(order)
  THEN IF order.kind = "right-to-left" THEN {Flip(Arange1(dim))}
       ELSE IF order.kind = "random" THEN Shuffles(dim)
       ELSE {Arange1(dim)}
  ELSE {order.arr}

\* variant: cycles through 1..input_dim instead of 1..input_dim-1
hidden_degrees_ltr_full_cycle(dim, size) ==
  [k \in 1..size |-> ((k - 1) % Max2(1, dim)) + Min2(1, dim - 1)]

\* variant: every hidden unit gets the lowest degree
hidden_degrees_ltr_constant(dim, size) ==
  [k \in 1..size |-> Min2(1, dim - 1)]

\* made.py 189-190, hidden_order = 'left-to-right'
hidden_degrees_ltr(dim, size) ==
  [k \in 1..size |-> ((k - 1) % Max2(1, dim - 1)) + Min2(1, dim - 1)]

\* made.py 185-187, hidden_order = 'random': every draw of np.random.randint
hidden_degrees_random(dim, prev, size) ==
  [1..size -> (Min2(NpMin(prev), dim - 1))..(dim - 1)]

hidden_degrees_of(dim, horder, prev, size) ==
  IF horder = "random" THEN hidden_degrees_random(dim, prev, size)
  ELSE {hidden_degrees_ltr(dim, size)}

RECURSIVE degrees_upto(_, _, _, _, _)
\* made.py 169-192: the degree lists after l hidden layers were appended
degrees_upto(dim, hdims, order, horder, l) ==
  IF l = 0 THEN {<<d>> : d \in input_degrees_of(dim, order)}
  ELSE UNION { {Append(ds, h) : h \in hidden_degrees_of(dim, horder, ds[Len(ds)], hdims[l])}
               : ds \in degrees_upto(dim, hdims, order, horder, l - 1) }

\* every list of degree vectors create_degrees can return (when it does not raise)
create_degrees(dim, hdims, order, horder) ==
  degrees_upto(dim, hdims, order, horder, Len(hdims))

\* tf.cast(bool, tf.float32)
Cast(b) == IF b THEN 1 ELSE 0

\* made.py 219: input-to-hidden and hidden-to-hidden mask
le_mask(src, dst) ==
  [i \in 1..Len(src) |-> [j \in 1..Len(dst) |-> Cast(src[i] <= dst[j])]]

\* variant: the output mask compares with <= like the other masks
lt_mask_nonstrict(src, dst) ==
  [i \in 1..Len(src) |-> [j \in 1..Len(dst) |-> Cast(src[i] <= dst[j])]]

\* variant: the output mask compares the degrees the wrong way round
lt_mask_swapped(src, dst) ==
  [i \in 1..Len(src) |-> [j \in 1..Len(dst) |-> Cast(dst[j] < src[i])]]

\* made.py 223: hidden-to-output mask
lt_mask(src, dst) ==
  [i \in 1..Len(src) |-> [j \in 1..Len(dst) |-> Cast(src[i] < dst[j])]]

\* made.py 216-225: the masks built from a list of degree vectors
create_masks(degs) ==
  [l \in 1..Len(degs) |->
     IF l < Len(degs) THEN le_mask(degs[l], degs[l + 1])
     ELSE lt_mask(degs[Len(degs)], degs[1])]

\* ---- the tracer at rest ----
\* names of the random variables of the model in trace_test.py
Names == {"x", "y"}
\* no value keyword given
NoValue == -1

NoResults == [n \in Names |-> [val |-> NoValue, trail |-> <<>>]]

TraceIdle ==
  /\ tstack = <<>> /\ frames = <<>>
  /\ exc = "none" /\ raised = "none" /\ caught = "none"
  /\ results = NoResults
  /\ trail = <<>>

\* ---- inputs ----
StrOrders == {[kind |-> k, arr |-> <<>>] : k \in {"left-to-right", "right-to-left", "random"}}
ArrayOrders(dim) == {[kind |-> "array", arr |-> a] : a \in [1..dim -> 1..(dim + 1)]}
HiddenDimsSet == UNION {[1..l -> 1..MaxHidden] : l \in 0..MaxLayers}

RECURSIVE SumSeq(_)
SumSeq(sq) == IF sq = <<>> THEN 0 ELSE Head(sq) + SumSeq(Tail(sq))

InitMasks ==
  /\ input_dim \in 1..MaxDim
  /\ hidden_dims \in HiddenDimsSet
  /\ input_order \in StrOrders \cup ArrayOrders(input_dim)
  /\ hidden_order \in {"left-to-right", "random"}
  /\ hidden_order = "random" => SumSeq(hidden_dims) <= MaxRandomUnits
  /\ status = "init"
  /\ degrees = <<>>
  /\ masks = <<>>
  /\ channels = 1 /\ units = 1
  /\ layer_masks = <<>> /\ unconstrained = <<>> /\ kernels = <<>> /\ nupdates = 0
  /\ TraceIdle

\* create_masks returns
CreateMasks ==
  /\ status = "init"
  /\ ~create_degrees_raises(input_dim, input_order, hidden_order)
  /\ \E degs \in create_degrees(input_dim, hidden_dims, input_order, hidden_order) :
       /\ degrees' = degs
       /\ masks' = create_masks(degs)
  /\ status' = "done"
  /\ UNCHANGED <<input_dim, hidden_dims, input_order, hidden_order, layerVars, traceVars>>

\* create_masks propagates the ValueError of create_degrees
CreateMasksRaises ==
  /\ status = "init"
  /\ create_degrees_raises(input_dim, input_order, hidden_order)
  /\ status' = "raised"
  /\ UNCHANGED <<input_dim, hidden_dims, input_order, hidden_order, degrees, masks, layerVars, traceVars>>

NextMasks == CreateMasks \/ CreateMasksRaises

SpecMasks == InitMasks /\ [][NextMasks]_vars
\* ---- properties of create_degrees / create_masks ----
IsPermutation(arr, dim) ==
  /\ Len(arr) = dim
  /\ \A v \in 1..dim : \E k \in 1..dim : arr[k] = v

ValidInputOrder ==
  \/ input_order.kind \in {"random", "left-to-right", "right-to-left"}
  \/ input_order.kind = "array" /\ IsPermutation(input_order.arr, input_dim)

RECURSIVE ReachedAt(_, _)
\* units of layer l (0 = input, Len(masks) = output) joined to input unit i
\* by a chain of 1-entries through masks[1..l]
ReachedAt(i, l) ==
  IF l = 0 THEN {i}
  ELSE {b \in 1..Len(masks[l][1]) : \E a \in ReachedAt(i, l - 1) : masks[l][a][b] = 1}

Connected(i, j) == j \in ReachedAt(i, Len(masks))

\* C1: whenever a chain of 1-entries through all masks joins input unit i to
\* output unit j, the degree of i is strictly below the degree of j; the output
\* unit of degree 1 is joined to no input unit.
C1_Autoregressive ==
  (status = "done" /\ ValidInputOrder) =>
    /\ \A i, j \in 1..input_dim : Connected(i, j) => degrees[1][i] < degrees[1][j]
    /\ \A j \in 1..input_dim :
         degrees[1][j] = 1 => \A i \in 1..input_dim : ~Connected(i, j)

C1_Witness ==
  /\ status = "done" /\ ValidInputOrder
  /\ Len(hidden_dims) = 2
  /\ hidden_order = "random"
  /\ input_order.kind = "right-to-left"
  /\ input_dim = 3
  /\ Connected(3, 1)
  /\ ~Connected(1, 3)

\* C2: an explicit array that is a permutation of 1..input_dim is returned
\* verbatim as the input degrees; an explicit array that is not a permutation
\* makes create_degrees raise, so no degrees are returned.
C2_ExplicitOrderValidated ==
  input_order.kind = "array" =>
    /\ (IsPermutation(input_order.arr, input_dim) /\ status # "init") =>
          status = "done" /\ degrees[1] = input_order.arr
    /\ ~IsPermutation(input_order.arr, input_dim) => status # "done"

\* C7: create_masks returns len(hidden_dims) + 1 masks; with no hidden layer
\* the single mask is input_dim x input_dim and holds 1 exactly where the row's
\* degree is strictly below the column's degree.
C7_NoHiddenSingleMask ==
  (status = "done" /\ ValidInputOrder) =>
    /\ Len(masks) = Len(hidden_dims) + 1
    /\ hidden_dims = <<>> =>
         /\ Len(masks) = 1
         /\ Len(masks[1]) = input_dim
         /\ \A i \in 1..input_dim : Len(masks[1][i]) = input_dim
         /\ \A i, j \in 1..input_dim :
              masks[1][i][j] = 1 <=> degrees[1][i] < degrees[1][j]
         /\ \A i, j \in 1..input_dim : masks[1][i][j] \in {0, 1}

C7_Witness ==
  /\ status = "done" /\ ValidInputOrder
  /\ hidden_dims = <<>>
  /\ input_dim = 3
  /\ input_order.kind = "array"
  /\ masks[1][2][1] = 1

\* C8 as stated: in 'left-to-right' mode hidden unit k gets degree
\* (k mod max(1, input_dim-1)) + 1, which lies in 1..max(1, input_dim-1),
\* for every input_dim >= 1.
C8_HiddenDegreesAtLeastOne ==
  (status = "done" /\ hidden_order = "left-to-right") =>
    \A l \in 1..Len(hidden_dims) : \A k \in 0..(hidden_dims[l] - 1) :
      /\ degrees[l + 1][k + 1] = (k % Max2(1, input_dim - 1)) + 1
      /\ degrees[l + 1][k + 1] >= 1
      /\ degrees[l + 1][k + 1] <= Max2(1, input_dim - 1)

\* C8 amended: for input_dim >= 2 hidden unit k gets degree
\* (k mod (input_dim-1)) + 1, which lies in 1..input_dim-1; for input_dim = 1
\* every hidden degree is 0.
C8_HiddenDegreesCycle ==
  (status = "done" /\ hidden_order = "left-to-right") =>
    \A l \in 1..Len(hidden_dims) :
      /\ Len(degrees[l + 1]) = hidden_dims[l]
      /\ \A k \in 0..(hidden_dims[l] - 1) :
           /\ input_dim >= 2 =>
                /\ degrees[l + 1][k + 1] = (k % (input_dim - 1)) + 1
                /\ degrees[l + 1][k + 1] \in 1..(input_dim - 1)
           /\ input_dim = 1 => degrees[l + 1][k + 1] = 0

C8_Witness ==
  /\ status = "done" /\ hidden_order = "left-to-right"
  /\ input_dim = 3
  /\ hidden_dims = <<3, 2>>
  /\ degrees[2] = <<1, 2, 1>>

\* C10: in 'left-to-right' hidden mode with input_dim >= 2 and every hidden
\* layer at least as wide as the input, every pair of input unit i and output
\* unit j with degree(i) < degree(j) is joined by a chain of 1-entries.
C10_Complete ==
  ( /\ status = "done" /\ ValidInputOrder
    /\ hidden_order = "left-to-right"
    /\ input_dim >= 2
    /\ \A l \in 1..Len(hidden_dims) : hidden_dims[l] >= input_dim ) =>
    \A i, j \in 1..input_dim : degrees[1][i] < degrees[1][j] => Connected(i, j)

C10_Witness ==
  /\ status = "done" /\ ValidInputOrder
  /\ hidden_order = "left-to-right"
  /\ input_dim = 3
  /\ hidden_dims = <<3, 3>>
  /\ input_order.kind = "random"
  /\ degrees[1] = <<2, 3, 1>>
  /\ Connected(1, 2) /\ Connected(3, 1) /\ Connected(3, 2)
\* ---- tensors: tile and reshape as TensorFlow computes them ----
\* mask[:, tf.newaxis, :]
expand_middle(m) == [i \in 1..Len(m) |-> <<m[i]>>]

\* mask[..., tf.newaxis]
expand_last(m) == [i \in 1..Len(m) |-> [j \in 1..Len(m[i]) |-> <<m[i][j]>>]]

\* tf.tile(t, [m1, m2, m3]) of a rank-3 tensor
tile3(t, m1, m2, m3) ==
  LET d1 == Len(t)
      d2 == Len(t[1])
      d3 == Len(t[1][1])
  IN [a \in 1..(d1 * m1) |-> [b \in 1..(d2 * m2) |-> [c \in 1..(d3 * m3) |->
        t[((a - 1) % d1) + 1][((b - 1) % d2) + 1][((c - 1) % d3) + 1]]]]

\* the row-major element order of a rank-3 tensor
flatten3(t) ==
  LET d2 == Len(t[1])
      d3 == Len(t[1][1])
  IN [n \in 1..(Len(t) * d2 * d3) |->
        t[((n - 1) \div (d2 * d3)) + 1][(((n - 1) \div d3) % d2) + 1][((n - 1) % d3) + 1]]

\* the row-major element order of a rank-2 tensor
flatten2(t) ==
  LET d2 == Len(t[1])
  IN [n \in 1..(Len(t) * d2) |-> t[((n - 1) \div d2) + 1][((n - 1) % d2) + 1]]

\* tf.reshape(flat elements, [rows, cols])
reshape2(flat, rows, cols) ==
  [r \in 1..rows |-> [c \in 1..cols |-> flat[(r - 1) * cols + c]]]

\* variant: naive tiling, tf.tile(mask, [channels, 1])
tile_rows_naive(m, ch) ==
  [r \in 1..(Len(m) * ch) |-> m[((r - 1) % Len(m)) + 1]]

\* made.py 98-100: the first mask, every row repeated contiguously
tile_rows(m, ch) ==
  LET t == tile3(expand_middle(m), 1, ch, 1)
  IN reshape2(flatten3(t), Len(m) * ch, Len(m[1]))

\* made.py 125-126: the last mask, every column repeated contiguously
tile_cols(m, un) ==
  LET t == tile3(expand_last(m), 1, 1, un)
  IN reshape2(flatten3(t), Len(m), Len(m[1]) * un)

\* made.py 95: Reshape([length * channels]); entry r is the sequence position
\* held by flat input index r
input_flat_position(length, ch) ==
  flatten2([p \in 1..length |-> [c \in 1..ch |-> p]])

\* made.py 134: Reshape([length, units]); entry k is the sequence position
\* that flat output index k is reshaped to
output_flat_position(length, un) ==
  LET out == reshape2(Arange1(length * un), length, un)
  IN [k \in 1..(length * un) |->
        CHOOSE p \in 1..length : \E u \in 1..un : out[p][u] = k]

\* made.py 94-133: the mask handed to each Dense layer, in network order
build_layer_masks(ms, hdims, ch, un) ==
  LET first == tile_rows(ms[1], ch)
  IN IF hdims = <<>> THEN <<tile_cols(first, un)>>
     ELSE [l \in 1..Len(ms) |->
             IF l = 1 THEN first
             ELSE IF l = Len(ms) THEN tile_cols(ms[Len(ms)], un)
             ELSE ms[l]]

\* ---- float32 values: finite numbers, infinities and NaN ----
Fin(n) == [k |-> "fin", v |-> n]
NaN == [k |-> "nan", v |-> 0]
PosInf == [k |-> "inf", v |-> 1]
NegInf == [k |-> "inf", v |-> -1]

\* float32 product of a mask entry (0.0 or 1.0) and a value
FMul(m, x) ==
  IF x.k = "fin" THEN Fin(m * x.v)
  ELSE IF x.k = "nan" THEN NaN
  ELSE IF m = 0 THEN NaN ELSE x

\* float32 sum
FAdd(x, y) ==
  IF x.k = "nan" \/ y.k = "nan" THEN NaN
  ELSE IF x.k = "inf" /\ y.k = "inf" THEN (IF x.v = y.v THEN x ELSE NaN)
  ELSE IF x.k = "inf" THEN x
  ELSE IF y.k = "inf" THEN y
  ELSE Fin(x.v + y.v)

\* values the Glorot uniform initializer can draw (finite, within its limit)
GlorotValues == <<Fin(-1), Fin(2), Fin(1)>>
\* values an update step can add to a weight
UpdateValues == <<Fin(-2), NaN, PosInf>>

\* a tensor of the shape of mask m filled from vals, starting at offset seed
tensor_from(vals, m, seed) ==
  [i \in 1..Len(m) |-> [j \in 1..Len(m[i]) |-> vals[((i + j + seed) % Len(vals)) + 1]]]

\* elementwise mask * x
mask_times(m, x) ==
  [i \in 1..Len(m) |-> [j \in 1..Len(m[i]) |-> FMul(m[i][j], x[i][j])]]

\* elementwise w + delta
tensor_add(w, d) ==
  [i \in 1..Len(w) |-> [j \in 1..Len(w[i]) |-> FAdd(w[i][j], d[i][j])]]

\* made.py 228-232: masked_initializer, applied to the initializer's draw
masked_initializer(m, drawn) == mask_times(m, drawn)

\* variant: the constraint forgets the mask
masked_constraint_identity(m, x) == x

\* made.py 235-239: masked_constraint
masked_constraint(m, x) == mask_times(m, x)

\* ---- the layer: build and training updates ----
\* explicit orders given to the layer: 2, 3, ..., dim, 1 and dim+1, ..., dim+1
MadeArrayOrders(dim) ==
  {[kind |-> "array", arr |-> a] :
     a \in {[k \in 1..dim |-> (k % dim) + 1], [k \in 1..dim |-> dim + 1]}}

InitMade ==
  /\ input_dim \in 1..MaxDim
  /\ hidden_dims \in HiddenDimsSet
  /\ \A l \in 1..Len(hidden_dims) : hidden_dims[l] >= input_dim
  /\ input_order \in (StrOrders \ {[kind |-> "random", arr |-> <<>>]})
                       \cup MadeArrayOrders(input_dim)
  /\ hidden_order = "left-to-right"
  /\ channels \in 1..MaxChannels
  /\ units \in 1..MaxUnits
  /\ status = "init"
  /\ degrees = <<>>
  /\ masks = <<>>
  /\ layer_masks = <<>> /\ unconstrained = <<>> /\ kernels = <<>> /\ nupdates = 0
  /\ TraceIdle

\* MADE.build followed by the creation of every kernel by its initializer
Build ==
  /\ status = "init"
  /\ ~create_degrees_raises(input_dim, input_order, hidden_order)
  /\ \E degs \in create_degrees(input_dim, hidden_dims, input_order, hidden_order) :
       LET ms == create_masks(degs)
           lms == build_layer_masks(ms, hidden_dims, channels, units)
           drawn == [l \in 1..Len(lms) |-> tensor_from(GlorotValues, lms[l], l)]
       IN /\ degrees' = degs
          /\ masks' = ms
          /\ layer_masks' = lms
          /\ unconstrained' = drawn
          /\ kernels' = [l \in 1..Len(lms) |-> masked_initializer(lms[l], drawn[l])]
  /\ status' = "built"
  /\ nupdates' = 0
  /\ UNCHANGED <<input_dim, hidden_dims, input_order, hidden_order, channels, units, traceVars>>

\* MADE.build aborted by the ValueError of create_masks
BuildRaises ==
  /\ status = "init"
  /\ create_degrees_raises(input_dim, input_order, hidden_order)
  /\ status' = "raised"
  /\ UNCHANGED <<input_dim, hidden_dims, input_order, hidden_order, degrees, masks, layerVars, traceVars>>

\* one training step: every kernel is updated, then its constraint is applied
Update ==
  /\ status = "built"
  /\ nupdates < MaxUpdates
  /\ \E seed \in 0..(Len(UpdateValues) - 1) :
       LET upd == [l \in 1..Len(kernels) |->
                     tensor_add(kernels[l], tensor_from(UpdateValues, kernels[l], seed + l))]
       IN /\ unconstrained' = upd
          /\ kernels' = [l \in 1..Len(kernels) |-> masked_constraint(layer_masks[l], upd[l])]
  /\ nupdates' = nupdates + 1
  /\ UNCHANGED <<maskVars, channels, units, layer_masks, traceVars>>

NextMade == Build \/ BuildRaises \/ Update

SpecMade == InitMade /\ [][NextMade]_vars

\* ---- properties of the masked layer ----
Entries(l) == {<<i, j>> : i \in 1..Len(layer_masks[l]), j \in 1..Len(layer_masks[l][1])}

\* C6 as stated: every masked entry of every kernel is exactly zero after the
\* masked initializer and after every update followed by the constraint,
\* whatever the update values; unmasked entries are left as they were.
C6_MaskedAlwaysZero ==
  status = "built" =>
    \A l \in 1..Len(kernels) : \A e \in Entries(l) :
      /\ layer_masks[l][e[1]][e[2]] = 0 => kernels[l][e[1]][e[2]] = Fin(0)
      /\ layer_masks[l][e[1]][e[2]] = 1 => kernels[l][e[1]][e[2]] = unconstrained[l][e[1]][e[2]]

\* C6 amended: a masked entry is exactly zero after the masked initializer,
\* and after an update followed by the constraint whenever the updated value
\* at that entry is finite (a NaN or infinite value leaves NaN); unmasked
\* entries are left as they were.
C6_MaskedZeroWhenFinite ==
  status = "built" =>
    /\ Len(kernels) = Len(hidden_dims) + 1
    /\ \A l \in 1..Len(kernels) : \A e \in Entries(l) :
         /\ (layer_masks[l][e[1]][e[2]] = 0 /\ nupdates = 0) =>
               kernels[l][e[1]][e[2]] = Fin(0)
         /\ (layer_masks[l][e[1]][e[2]] = 0 /\ unconstrained[l][e[1]][e[2]].k = "fin") =>
               kernels[l][e[1]][e[2]] = Fin(0)
         /\ (layer_masks[l][e[1]][e[2]] = 0 /\ unconstrained[l][e[1]][e[2]].k # "fin") =>
               kernels[l][e[1]][e[2]] = NaN
         /\ layer_masks[l][e[1]][e[2]] = 1 =>
               kernels[l][e[1]][e[2]] = unconstrained[l][e[1]][e[2]]

C6_Witness ==
  /\ status = "built"
  /\ nupdates = 2
  /\ Len(kernels) = 3
  /\ \E e \in Entries(2) :
       /\ layer_masks[2][e[1]][e[2]] = 0
       /\ unconstrained[2][e[1]][e[2]] = Fin(-2)
       /\ kernels[2][e[1]][e[2]] = Fin(0)
  /\ \E e \in Entries(1) :
       /\ layer_masks[1][e[1]][e[2]] = 1
       /\ kernels[1][e[1]][e[2]].k = "fin"
       /\ kernels[1][e[1]][e[2]].v # 0

\* C9: row r of the tiled first mask is the row of the untiled mask for the
\* sequence position r div channels held by flat input index r, and column k
\* of the tiled last mask is the column of the untiled mask for the position
\* k div units that flat output index k is reshaped to; with no hidden layer
\* the one mask is tiled on both axes.
C9_TilingAligned ==
  status = "built" =>
    LET L == Len(layer_masks)
        inpos == input_flat_position(input_dim, channels)
        outpos == output_flat_position(input_dim, units)
    IN /\ Len(layer_masks[1]) = input_dim * channels
       /\ \A i \in 1..Len(layer_masks[L]) : Len(layer_masks[L][i]) = input_dim * units
       /\ \A r \in 1..(input_dim * channels) : inpos[r] = ((r - 1) \div channels) + 1
       /\ \A k \in 1..(input_dim * units) : outpos[k] = ((k - 1) \div units) + 1
       /\ hidden_dims # <<>> =>
            /\ \A r \in 1..(input_dim * channels) : layer_masks[1][r] = masks[1][inpos[r]]
            /\ \A i \in 1..Len(layer_masks[L]) : \A k \in 1..(input_dim * units) :
                 layer_masks[L][i][k] = masks[L][i][outpos[k]]
       /\ hidden_dims = <<>> =>
            \A r \in 1..(input_dim * channels) : \A k \in 1..(input_dim * units) :
              layer_masks[1][r][k] = masks[1][inpos[r]][outpos[k]]

C9_Witness ==
  /\ status = "built"
  /\ channels = 2 /\ units = 2 /\ input_dim = 3
  /\ hidden_dims = <<>>
  /\ input_order.kind = "left-to-right"
  /\ layer_masks[1][2][3] = 1
  /\ layer_masks[1][3][3] = 0
  /\ layer_masks[1][3][4] = 0
  /\ layer_masks[1][4][5] = 1
\* ---- the tracer stack ----
\* values in hundredths: 1.0 and 0.42 of trace_test.py
ValueX == 100
ValueY == 42
\* values the raw factory can sample when no value is given
SampleValues == {7, 30}

Handlers == {"double", "set_xy", "trivial_tracer", "double_nf", "set_xy_nf", "tracer"}

\* variant: double calls the raw factory instead of forwarding
Forwards_double_raw(h) == h \in {"set_xy", "trivial_tracer"}

\* variant: the non-forwarding set_xy forwards
Forwards_set_xy_nf(h) == h \in {"double", "set_xy", "trivial_tracer", "set_xy_nf"}

\* trace_test.py: the handlers that call ed.traceable(f) (52, 68, 75); the
\* others call f directly (93, 100, 119)
Forwards(h) == h \in {"double", "set_xy", "trivial_tracer"}

\* trace_test.py 92: the failing assertion at the start of the non-forwarding double
RaisesAtStart(h) == h = "double_nf"

\* trace_test.py 68, 93: 2. * (...)
Factor(h) == IF h \in {"double", "double_nf"} THEN 2 ELSE 1

\* trace_test.py 71-74, 96-99: set_xy writes kwargs["value"]
fix_value(h, name, value) ==
  IF h \in {"set_xy", "set_xy_nf"}
  THEN IF name = "x" THEN ValueX ELSE IF name = "y" THEN ValueY ELSE value
  ELSE value

\* the raw factory: the given value, or else a sample
raw_values(value) == IF value = NoValue THEN SampleValues ELSE {value}

Front(s) == SubSeq(s, 1, Len(s) - 1)
Last(s) == s[Len(s)]

\* entering a trace scope pushes the handler
trace_enter(stack, h) == Append(stack, h)

\* leaving a trace scope, normally or by an exception, pops one entry
trace_exit(stack) == Front(stack)

\* a traceable call hides the top handler while it runs
hide_top(stack) == Front(stack)

\* variant: the handler is not put back
restore_top_dropped(stack, h) == stack

\* the hidden handler is put back when its invocation ends, also on error
restore_top(stack, h) == Append(stack, h)

scope_frame(h, saved) ==
  [kind |-> "scope", h |-> h, saved |-> saved, name |-> "-", value |-> NoValue,
   pc |-> "body", acc |-> 0]

handler_frame(h, saved, name, value) ==
  [kind |-> "handler", h |-> h, saved |-> saved, name |-> name, value |-> value,
   pc |-> "start", acc |-> 0]

\* code of the model runs at top level or directly in a trace scope
InModelCode == exc = "none" /\ (IF frames = <<>> THEN TRUE ELSE Last(frames).kind = "scope")
InHandler(pc) == exc = "none" /\ frames # <<>> /\ Last(frames).kind = "handler" /\ Last(frames).pc = pc

\* with ed.trace(h):
EnterScope(h) ==
  /\ InModelCode
  /\ Len(tstack) < MaxDepth
  /\ tstack' = trace_enter(tstack, h)
  /\ frames' = Append(frames, scope_frame(h, tstack))
  /\ results' = NoResults
  /\ trail' = <<>>
  /\ UNCHANGED <<exc, raised, caught, maskVars, layerVars>>

\* the end of the with block is reached
ExitScope ==
  /\ InModelCode /\ frames # <<>>
  /\ tstack' = trace_exit(tstack)
  /\ frames' = Front(frames)
  /\ results' = NoResults
  /\ trail' = <<>>
  /\ UNCHANGED <<exc, raised, caught, maskVars, layerVars>>

\* the model calls a traceable factory
CallTraceable(name) ==
  /\ InModelCode
  /\ IF tstack # <<>>
     THEN /\ tstack' = hide_top(tstack)
          /\ frames' = Append(frames, handler_frame(Last(tstack), tstack, name, NoValue))
          /\ trail' = <<Last(tstack)>>
          /\ UNCHANGED results
     ELSE /\ \E v \in raw_values(NoValue) :
               results' = [results EXCEPT ![name] = [val |-> v, trail |-> <<>>]]
          /\ trail' = <<>>
          /\ UNCHANGED <<tstack, frames>>
  /\ UNCHANGED <<exc, raised, caught, maskVars, layerVars>>

\* the handler forwards: ed.traceable(f)(*args, **kwargs)
HandlerForward ==
  /\ InHandler("start")
  /\ LET f == Last(frames)
         v == fix_value(f.h, f.name, f.value)
     IN /\ Forwards(f.h) /\ ~RaisesAtStart(f.h)
        /\ IF tstack # <<>>
           THEN /\ tstack' = hide_top(tstack)
                /\ frames' = Append([frames EXCEPT ![Len(frames)].pc = "wait",
                                                   ![Len(frames)].value = v],
                                    handler_frame(Last(tstack), tstack, f.name, v))
                /\ trail' = Append(trail, Last(tstack))
           ELSE /\ \E r \in raw_values(v) :
                     frames' = [frames EXCEPT ![Len(frames)].pc = "ret",
                                              ![Len(frames)].value = v,
                                              ![Len(frames)].acc = Factor(f.h) * r]
                /\ UNCHANGED <<tstack, trail>>
  /\ UNCHANGED <<exc, raised, caught, results, maskVars, layerVars>>

\* the handler calls the raw factory it was given: f(*args, **kwargs)
HandlerCallRaw ==
  /\ InHandler("start")
  /\ LET f == Last(frames)
         v == fix_value(f.h, f.name, f.value)
     IN /\ ~Forwards(f.h) /\ ~RaisesAtStart(f.h)
        /\ \E r \in raw_values(v) :
             frames' = [frames EXCEPT ![Len(frames)].pc = "ret",
                                      ![Len(frames)].value = v,
                                      ![Len(frames)].acc = Factor(f.h) * r]
  /\ UNCHANGED <<tstack, exc, raised, caught, results, trail, maskVars, layerVars>>

\* the handler returns; the traceable wrapper puts it back on the stack
HandlerReturn ==
  /\ InHandler("ret")
  /\ LET f == Last(frames)
         rest == Front(frames)
     IN /\ tstack' = restore_top(tstack, f.h)
        /\ IF (IF rest = <<>> THEN FALSE ELSE Last(rest).kind = "handler")
           THEN /\ frames' = [rest EXCEPT ![Len(rest)].pc = "ret",
                                          ![Len(rest)].acc = Factor(Last(rest).h) * f.acc]
                /\ UNCHANGED results
           ELSE /\ frames' = rest
                /\ results' = [results EXCEPT ![f.name] = [val |-> f.acc, trail |-> trail]]
  /\ UNCHANGED <<exc, raised, caught, trail, maskVars, layerVars>>

\* the handler raises (the failed assertion)
HandlerRaise ==
  /\ InHandler("start")
  /\ RaisesAtStart(Last(frames).h)
  /\ exc' = "AssertionError"
  /\ raised' = "AssertionError"
  /\ UNCHANGED <<tstack, frames, caught, results, trail, maskVars, layerVars>>

\* the code in the scope raises (f() of testTraceException)
RaiseInScope ==
  /\ InModelCode /\ frames # <<>>
  /\ exc' = "NotImplementedError"
  /\ raised' = "NotImplementedError"
  /\ UNCHANGED <<tstack, frames, caught, results, trail, maskVars, layerVars>>

\* the exception leaves the innermost scope or handler invocation
Unwind ==
  /\ exc # "none" /\ frames # <<>>
  /\ tstack' = IF Last(frames).kind = "scope" THEN trace_exit(tstack)
               ELSE restore_top(tstack, Last(frames).h)
  /\ frames' = Front(frames)
  /\ results' = NoResults
  /\ UNCHANGED <<exc, raised, caught, trail, maskVars, layerVars>>

\* the caller of the outermost scope receives the exception
Catch ==
  /\ exc # "none" /\ frames = <<>>
  /\ caught' = exc
  /\ exc' = "none"
  /\ UNCHANGED <<tstack, frames, raised, results, trail, maskVars, layerVars>>

\* ---- the tracer specification ----
InitTrace ==
  /\ input_dim = 1 /\ hidden_dims = <<>>
  /\ input_order = [kind |-> "left-to-right", arr |-> <<>>]
  /\ hidden_order = "left-to-right"
  /\ status = "init" /\ degrees = <<>> /\ masks = <<>>
  /\ channels = 1 /\ units = 1
  /\ layer_masks = <<>> /\ unconstrained = <<>> /\ kernels = <<>> /\ nupdates = 0
  /\ TraceIdle

NextTrace ==
  \/ \E h \in Handlers : EnterScope(h)
  \/ ExitScope
  \/ \E n \in Names : CallTraceable(n)
  \/ HandlerForward
  \/ HandlerCallRaw
  \/ HandlerReturn
  \/ HandlerRaise
  \/ RaiseInScope
  \/ Unwind
  \/ Catch

SpecTrace == InitTrace /\ [][NextTrace]_vars
\* ---- properties of the tracer stack ----
HandlerFrames == {k \in 1..Len(frames) : frames[k].kind = "handler"}
\* the stack a frame's code sees while it runs
StackSeenBy(k) == IF k = Len(frames) THEN tstack ELSE frames[k + 1].saved

RECURSIVE Reverse(_)
Reverse(sq) == IF sq = <<>> THEN <<>> ELSE Append(Reverse(Tail(sq)), Head(sq))

\* C3: every scope exit and every return of a traced call, normal or by an
\* exception, leaves the tracer stack exactly as it was before the scope was
\* entered or the call was made, and the exception reaches the caller as raised.
C3_StackBalanced ==
  [][ /\ Len(frames') < Len(frames) =>
           /\ Len(frames') = Len(frames) - 1
           /\ tstack' = Last(frames).saved
           /\ exc' = exc
      /\ exc # "none" => exc = raised
      /\ (exc # "none" /\ exc' = "none") => caught' = raised /\ tstack' = <<>>
    ]_vars

C3_Witness ==
  /\ exc = "AssertionError"
  /\ Len(frames) = 2
  /\ Last(frames).kind = "scope"
  /\ tstack = <<"tracer", "double_nf">>
  /\ caught = "NotImplementedError"

\* C4: while a handler runs it is hidden from the stack, so a traceable call
\* made from inside it goes to the next-outer handler; one forwarding chain
\* invokes the handlers of the stack innermost first, each at most once. With
\* set_xy outside double, x and y come out as 2*1.0 and 2*0.42.
C4_NextOuterDispatch ==
  /\ \A k \in HandlerFrames :
       /\ frames[k].saved # <<>>
       /\ frames[k].h = Last(frames[k].saved)
       /\ StackSeenBy(k) = Front(frames[k].saved)
       /\ (k > 1 /\ frames[k - 1].kind = "handler") =>
             frames[k].saved = Front(frames[k - 1].saved)
  /\ HandlerFrames # {} =>
       LET first == CHOOSE k \in HandlerFrames : \A m \in HandlerFrames : k <= m
           start == frames[first].saved
       IN /\ Len(trail) <= Len(start)
          /\ trail = Reverse(SubSeq(start, Len(start) - Len(trail) + 1, Len(start)))
          /\ Cardinality(HandlerFrames) <= Len(start)
  /\ (InModelCode /\ tstack = <<"set_xy", "double">>) =>
       /\ results["x"].val # NoValue =>
            results["x"] = [val |-> 2 * ValueX, trail |-> <<"double", "set_xy">>]
       /\ results["y"].val # NoValue =>
            results["y"] = [val |-> 2 * ValueY, trail |-> <<"double", "set_xy">>]
       /\ (results["x"].val # NoValue /\ results["y"].val # NoValue) =>
            results["x"].val + results["y"].val = 284

C4_Witness ==
  /\ InModelCode /\ tstack = <<"set_xy", "double">>
  /\ results["x"].val = 200
  /\ results["y"].val = 84

\* C5: when the innermost handler calls the raw factory directly, no outer
\* handler is invoked and the model receives what the innermost handler
\* returns; an outer handler runs only below a handler that forwarded.
C5_OuterOnlyOnForwarding ==
  /\ \A k \in HandlerFrames :
       /\ (k > 1 /\ frames[k - 1].kind = "handler") =>
             Forwards(frames[k - 1].h) /\ frames[k - 1].pc = "wait"
       /\ ~Forwards(frames[k].h) => k = Len(frames)
  /\ (InModelCode /\ tstack # <<>>) =>
       \A n \in Names :
         (results[n].val # NoValue /\ ~Forwards(Last(tstack))) =>
            /\ results[n].trail = <<Last(tstack)>>
            /\ results[n].val \in
                 {Factor(Last(tstack)) * r : r \in raw_values(fix_value(Last(tstack), n, NoValue))}
  /\ (InModelCode /\ tstack = <<"double_nf", "set_xy_nf">>) =>
       /\ results["x"].val \in {NoValue, ValueX}
       /\ results["y"].val \in {NoValue, ValueY}
  /\ \A k \in HandlerFrames :
       (frames[k].saved = <<"double_nf", "set_xy_nf">> /\ frames[k - 1].kind = "scope") =>
          /\ frames[k].h = "set_xy_nf"
          /\ k = Len(frames)
          /\ trail = <<"set_xy_nf">>
          /\ exc = "none"

C5_Witness ==
  /\ InModelCode /\ tstack = <<"double_nf", "set_xy_nf">>
  /\ results["x"] = [val |-> 100, trail |-> <<"set_xy_nf">>]
  /\ results["y"] = [val |-> 42, trail |-> <<"set_xy_nf">>]
====
